---- MODULE Spec2Model ----
(***************************************************************************)
(* A model of jk::tree::KDTree (src/KDTree.h): the node arena m_nodes, the *)
(* pending-split set waitingForSplit, the recycled bucket buffer           *)
(* m_bucketRecycle, the insertion and splitting engine and the queries.    *)
(*                                                                         *)
(* Scalars.  Scalar is double.  The model holds a Scalar as an integer.    *)
(* A small coordinate c (0 .. MaxCoord) stands for the double c itself     *)
(* when scalarGrid is FALSE, and for the double 2^52 + c when scalarGrid   *)
(* is TRUE: in the binade [2^52, 2^53) the doubles are exactly the         *)
(* integers, so differences and distances of such coordinates are exact    *)
(* while the midpoint of two adjacent ones is not representable and rounds *)
(* to even (the std::nextafter case of duplicateTest).                     *)
(* A huge value is held in units of 1e304: 10000, 16000, 17000 and -16000  *)
(* stand for 1e308, 1.6e308, 1.7e308 and -1.6e308, ScalarMax = 17976 plays *)
(* DBL_MAX (1.7976...e308) and Inf plays infinity.  Sums and differences   *)
(* of huge values are those of the integers, and beyond ScalarMax they are *)
(* infinite, as the sum of two huge coordinates and the square of any      *)
(* difference with one are; a small value added to or subtracted from a    *)
(* huge one is absorbed, as the double's rounding does (1e308 - 1 ==       *)
(* 1e308).  The values of magnitude HugeMin and above are the huge ones.   *)
(* So every comparison the code makes has the same outcome on the model's  *)
(* integers as on the doubles they stand for.  In Locations the huge       *)
(* coordinates occur in dimension 0 only; the points of HugePoints have    *)
(* zero or huge coordinates in both dimensions.                            *)
(* m_splitValue is held doubled (twice the split value), so that the exact *)
(* midpoint of two integers stays an integer.                              *)
(***************************************************************************)
EXTENDS Integers, Sequences, FiniteSets, TLC

\* ------------------------------------------------------------------ bounds
Dimensions == 2
BucketSize == 2
MaxInserts == 4
MaxCoord == 2
MaxK == 5
\* The nodes the arena has memory for: an emplace_back beyond it throws
\* std::bad_alloc.
MaxNodes == 24

\* DBL_MAX, in the units of the huge values (1e304), and infinity.
ScalarMax == 17976
Inf == 1000000
\* The values of magnitude HugeMin and above are huge values, in units of
\* 1e304 (1e307 and more: the huge coordinates and their sums and
\* differences); the values below it stand for themselves.
HugeMin == 1000

VARIABLES m_nodes, waitingForSplit, m_bucketRecycle,
          points, scalarGrid, pc, searchStack,
          searcher, searches, lastQuery

vars == <<m_nodes, waitingForSplit, m_bucketRecycle,
          points, scalarGrid, pc, searchStack, searcher, searches, lastQuery>>

treeVars == <<m_nodes, waitingForSplit, m_bucketRecycle>>

\* ----------------------------------------------------------------- scalars
\* The coordinates of the points inserted and queried: the small ones in both
\* dimensions, the huge ones in dimension 0.
HugeCoords == {10000, 16000}
SmallCoords == 0 .. MaxCoord
Locations == { <<x, y>> : x \in SmallCoords, y \in {0, 1} }
                 \cup { <<x, 0>> : x \in HugeCoords }

\* A double result: beyond DBL_MAX it is infinity.
Overflow(v) == IF v > ScalarMax THEN Inf ELSE IF v < -ScalarMax THEN -Inf ELSE v

\* v stands for a double of the order of 1e307 or more: its ulp is far above
\* every small value of the model.
IsHuge(v) == v >= HugeMin \/ v <= -HugeMin

\* a + b in double: a small term added to a huge one is absorbed
\* (1e308 + 1 == 1e308); a sum beyond DBL_MAX is infinite.
ScalarAdd(a, b) ==
    IF a = Inf \/ b = Inf THEN Inf
    ELSE IF a = -Inf \/ b = -Inf THEN -Inf
    ELSE IF IsHuge(a) /\ ~IsHuge(b) THEN a
    ELSE IF IsHuge(b) /\ ~IsHuge(a) THEN b
    ELSE Overflow(a + b)

ScalarSub(a, b) == ScalarAdd(a, -b)

ScalarSqr(v) == IF v = Inf \/ v = -Inf THEN Inf ELSE Overflow(v * v)

ScalarAbs(v) == IF v > 0 THEN v ELSE -v

\* ----------------------------------------------------------------- metrics
RECURSIVE L1Sum(_, _, _)
L1Sum(location1, location2, i) ==
    IF i > Dimensions THEN 0
    ELSE ScalarAdd(ScalarAbs(ScalarSub(location1[i], location2[i])),
                   L1Sum(location1, location2, i + 1))

L1distance(location1, location2) == L1Sum(location1, location2, 1)

RECURSIVE L2Sum(_, _, _)
L2Sum(location1, location2, i) ==
    IF i > Dimensions THEN 0
    ELSE ScalarAdd(ScalarSqr(ScalarSub(location1[i], location2[i])),
                   L2Sum(location1, location2, i + 1))

L2distance(location1, location2) == L2Sum(location1, location2, 1)

\* Metric = L1 in place of the default.
MetricL1(location1, location2) == L1distance(location1, location2)

\* Metric = L2, the default template argument.
MetricDistance(location1, location2) == L2distance(location1, location2)

\* -------------------------------------------------------------------- Node
\* Node::init: inverted infinite bounds, no entries, a leaf.
EmptyBounds == [i \in 1 .. Dimensions |-> <<Inf, -Inf>>]

\* Node(capacity), and Node(recycle, capacity) with bucket the recycled buffer.
NewNode(bucket) ==
    [m_entries |-> 0,
     m_splitDimension |-> Dimensions,
     m_splitValue |-> 0,
     m_bounds |-> EmptyBounds,
     m_children |-> <<0, 0>>,
     m_locationPayloads |-> bucket]

IsLeaf(node) == node.m_splitDimension = Dimensions

\* The loop of expandBounds over the dimensions, from dimension i on.
RECURSIVE ExpandFrom(_, _, _)
ExpandFrom(bounds, location, i) ==
    IF i > Dimensions THEN bounds
    ELSE ExpandFrom([bounds EXCEPT
                       ![i] = << IF @[1] > location[i] THEN location[i] ELSE @[1],
                                 IF @[2] < location[i] THEN location[i] ELSE @[2] >>],
                    location, i + 1)

\* The bounds are expanded, the entry is not counted.
expandBoundsUncounted(node, location) ==
    [node EXCEPT !.m_bounds = ExpandFrom(@, location, 1)]

expandBounds(node, location) ==
    [node EXCEPT !.m_bounds = ExpandFrom(@, location, 1),
                 !.m_entries = @ + 1]

add(node, lp) ==
    [expandBounds(node, lp.location) EXCEPT
       !.m_locationPayloads = Append(@, lp)]

shouldSplit(node) == node.m_entries >= BucketSize

\* location[m_splitDimension] < m_splitValue (m_splitValue is held doubled).
BelowSplit(node, location) ==
    2 * location[node.m_splitDimension + 1] < node.m_splitValue

\* ------------------------------------------------------------------- split
\* avg of a bound pair, doubled: (vals[0] + vals[1]) / Scalar(2).  The sum of
\* two huge coordinates is infinite; on the 2^52 grid the midpoint of an odd
\* sum is not representable and rounds to the even neighbour.
Avg2(grid, lo, hi) ==
    LET s == ScalarAdd(lo, hi)
        m == s \div 2
    IN  IF s = Inf \/ s = -Inf THEN s
        ELSE IF grid /\ hi <= MaxCoord /\ s % 2 = 1
        THEN (IF m % 2 = 0 THEN 2 * m ELSE 2 * (m + 1))
        ELSE s

\* The widest dimension, scanned in order with a strict comparison; Dimensions
\* when no dimension has positive width.
RECURSIVE WidestFrom(_, _, _, _)
WidestFrom(bounds, i, best, width) ==
    IF i > Dimensions THEN best
    ELSE LET dWidth == ScalarSub(bounds[i][2], bounds[i][1])
         IN  IF dWidth > width
             THEN WidestFrom(bounds, i + 1, i - 1, dWidth)
             ELSE WidestFrom(bounds, i + 1, best, width)

WidestDimension(bounds) == WidestFrom(bounds, 1, Dimensions, 0)

\* The partition loop of split: every element of the split node's bucket goes
\* to the left or the right child.
RECURSIVE Partition(_, _, _, _, _)
Partition(splitNode, bucket, i, leftNode, rightNode) ==
    IF i > Len(bucket) THEN <<leftNode, rightNode>>
    ELSE IF BelowSplit(splitNode, bucket[i].location)
         THEN Partition(splitNode, bucket, i + 1, add(leftNode, bucket[i]), rightNode)
         ELSE Partition(splitNode, bucket, i + 1, leftNode, add(rightNode, bucket[i]))

\* The end of split without the restore of a rolled-back node: with an empty
\* child the node keeps the split fields it was given.
SplitWithoutRestore(nodes, index, old, splitNode, parts) ==
    LET leftNode == parts[1]
        rightNode == parts[2]
    IN  IF leftNode.m_entries = 0 \/ rightNode.m_entries = 0
        THEN [nodes |-> [nodes EXCEPT ![index + 1] = splitNode],
              recycle |-> leftNode.m_locationPayloads,
              ok |-> FALSE, bad_alloc |-> FALSE]
        ELSE [nodes |-> Append(Append(
                           [nodes EXCEPT ![index + 1] =
                              [splitNode EXCEPT !.m_locationPayloads = <<>>]],
                           leftNode), rightNode),
              recycle |-> <<>>,
              ok |-> TRUE, bad_alloc |-> FALSE]

\* The end of split, after the partition loop gave parts = <<left, right>>:
\* with an empty child the node is rolled back and the left bucket goes to
\* m_bucketRecycle as it is; otherwise the two children are appended to the
\* arena and the split node gives up its bucket.
SplitWith(nodes, index, old, splitNode, parts) ==
    LET leftNode == parts[1]
        rightNode == parts[2]
    IN  IF leftNode.m_entries = 0 \/ rightNode.m_entries = 0
        THEN [nodes |-> [nodes EXCEPT ![index + 1] =
                           [old EXCEPT !.m_splitValue = 0,
                                       !.m_splitDimension = Dimensions,
                                       !.m_children = <<0, 0>>]],
              recycle |-> leftNode.m_locationPayloads,
              ok |-> FALSE, bad_alloc |-> FALSE]
        ELSE [nodes |-> Append(Append(
                           [nodes EXCEPT ![index + 1] =
                              [splitNode EXCEPT !.m_locationPayloads = <<>>]],
                           leftNode), rightNode),
              recycle |-> <<>>,
              ok |-> TRUE, bad_alloc |-> FALSE]

\* split once the children are allocated: the partition loop runs once and
\* its two children go to the end of split.
SplitInto(nodes, recycle, index, old, splitNode) ==
    CHOOSE r \in { SplitWith(nodes, index, old, splitNode, parts) :
                   parts \in { Partition(splitNode, splitNode.m_locationPayloads, 1,
                                         NewNode(recycle), NewNode(<<>>)) } } : TRUE

\* split once the widest dimension dim is selected: no dimension has a
\* positive width and split returns false, or the split fields are set and
\* the two children are allocated.  An emplace_back beyond MaxNodes throws
\* std::bad_alloc and the split node is left with its split fields set: the
\* first one with nothing appended, the second one with the left child, which
\* has taken the recycle buffer, appended.
SplitAlong(grid, nodes, recycle, index, old, dim) ==
    IF dim = Dimensions
    THEN [nodes |-> nodes, recycle |-> recycle, ok |-> FALSE, bad_alloc |-> FALSE]
    ELSE CHOOSE r \in
           { IF Len(nodes) + 1 > MaxNodes
             THEN [nodes |-> [nodes EXCEPT ![index + 1] = splitNode],
                   recycle |-> recycle, ok |-> FALSE, bad_alloc |-> TRUE]
             ELSE IF Len(nodes) + 2 > MaxNodes
             THEN [nodes |-> Append([nodes EXCEPT ![index + 1] = splitNode],
                                    NewNode(recycle)),
                   recycle |-> <<>>, ok |-> FALSE, bad_alloc |-> TRUE]
             ELSE SplitInto(nodes, recycle, index, old, splitNode) :
             splitNode \in
               { [old EXCEPT
                    !.m_splitDimension = dim,
                    !.m_splitValue = Avg2(grid, old.m_bounds[dim + 1][1],
                                                old.m_bounds[dim + 1][2]),
                    !.m_children = <<Len(nodes), Len(nodes) + 1>>] } } : TRUE

\* split of the node old = nodes[index]: the widest dimension is selected
\* once.
SplitAt(grid, nodes, recycle, index, old) ==
    CHOOSE r \in { SplitAlong(grid, nodes, recycle, index, old, dim) :
                   dim \in { WidestDimension(old.m_bounds) } } : TRUE

\* KDTree::split(index) on arena nodes and recycle buffer recycle: the arena
\* and the recycle buffer afterwards, the returned bool, and whether the
\* emplace_back of the children threw std::bad_alloc.  The left child takes
\* the recycle buffer as its bucket.  Each local variable of the code is
\* bound to its value once.
split(grid, nodes, recycle, index) ==
    CHOOSE r \in { SplitAt(grid, nodes, recycle, index, old) :
                   old \in { nodes[index + 1] } } : TRUE

\* ---------------------------------------------------------------- addPoint
\* The descent loop of addPoint: every internal node on the way has its
\* bounds expanded and its m_entries incremented.
RECURSIVE Descend(_, _, _)
Descend(nodes, addNode, location) ==
    IF IsLeaf(nodes[addNode + 1])
    THEN [nodes |-> nodes, addNode |-> addNode]
    ELSE LET node == expandBounds(nodes[addNode + 1], location)
             next == IF BelowSplit(node, location)
                     THEN node.m_children[1] ELSE node.m_children[2]
         IN  Descend([nodes EXCEPT ![addNode + 1] = node], next, location)

\* The leaf addPoint reaches for location.
AddNode(nodes, location) == Descend(nodes, 0, location).addNode

\* The arena after m_nodes[addNode].add(LocationPayload{location, payload}).
AfterAdd(nodes, location, payload) ==
    LET d == Descend(nodes, 0, location)
    IN  [d.nodes EXCEPT ![d.addNode + 1] =
           add(d.nodes[d.addNode + 1], [location |-> location, payload |-> payload])]

\* The threshold is passed, not reached.
SplitDueAbove(node) == node.m_entries > BucketSize /\ node.m_entries % BucketSize = 0

\* A split is due with every entry added.
SplitDueAlways(node) == node.m_entries >= 1

\* shouldSplit() && m_entries % BucketSize == 0
SplitDue(node) == shouldSplit(node) /\ node.m_entries % BucketSize = 0

AddPoint(location, payload, autosplit) ==
    /\ pc = "idle"
    /\ LET addNode == AddNode(m_nodes, location)
           nodes == AfterAdd(m_nodes, location, payload)
       IN  IF SplitDue(nodes[addNode + 1])
           THEN IF autosplit
                THEN LET r == split(scalarGrid, nodes, m_bucketRecycle, addNode)
                     IN  /\ m_nodes' = r.nodes
                         /\ m_bucketRecycle' = r.recycle
                         /\ pc' = IF r.bad_alloc THEN "bad_alloc" ELSE pc
                         /\ UNCHANGED waitingForSplit
                ELSE /\ m_nodes' = nodes
                     /\ waitingForSplit' = waitingForSplit \cup {addNode}
                     /\ UNCHANGED <<m_bucketRecycle, pc>>
           ELSE /\ m_nodes' = nodes
                /\ UNCHANGED <<waitingForSplit, m_bucketRecycle, pc>>
    /\ points' = Append(points, location)
    /\ UNCHANGED <<scalarGrid, searchStack, searcher, searches, lastQuery>>

\* --------------------------------------------------------- splitOutstanding
\* The elements of a std::set in iteration (ascending) order.
RECURSIVE SetToSeq(_)
SetToSeq(S) ==
    IF S = {} THEN <<>>
    ELSE LET m == CHOOSE x \in S : \A y \in S : x <= y
         IN  <<m>> \o SetToSeq(S \ {m})

\* searchStack(waitingForSplit.begin(), waitingForSplit.end())
SplitOutstandingBegin ==
    /\ pc = "idle"
    /\ pc' = "splitOutstanding"
    /\ searchStack' = SetToSeq(waitingForSplit)
    /\ UNCHANGED <<treeVars, points, scalarGrid, searcher, searches, lastQuery>>

\* The stack after one iteration of the loop that pops addNode, given the
\* arena after the iteration and whether the children are pushed.
PushChildren(rest, node) == Append(Append(rest, node.m_children[1]), node.m_children[2])

\* if (!split(addNode)) continue: the node popped is dropped.
AfterFailedSplit(rest, addNode) == rest

SplitOutstandingStep ==
    /\ pc = "splitOutstanding"
    /\ Len(searchStack) > 0
    /\ LET addNode == searchStack[Len(searchStack)]
           rest == SubSeq(searchStack, 1, Len(searchStack) - 1)
           node == m_nodes[addNode + 1]
       IN  IF IsLeaf(node)
           THEN IF ~shouldSplit(node)
                THEN /\ searchStack' = rest
                     /\ UNCHANGED <<treeVars, pc>>
                ELSE \E r \in {split(scalarGrid, m_nodes, m_bucketRecycle, addNode)} :
                         /\ m_nodes' = r.nodes
                         /\ m_bucketRecycle' = r.recycle
                         /\ searchStack' = IF r.ok
                                           THEN PushChildren(rest, r.nodes[addNode + 1])
                                           ELSE AfterFailedSplit(rest, addNode)
                         /\ pc' = IF r.bad_alloc THEN "bad_alloc" ELSE pc
                         /\ UNCHANGED waitingForSplit
           ELSE /\ searchStack' = PushChildren(rest, node)
                /\ UNCHANGED <<treeVars, pc>>
    /\ UNCHANGED <<points, scalarGrid, searcher, searches, lastQuery>>

\* waitingForSplit.clear() once the stack is empty
SplitOutstandingEnd ==
    /\ pc = "splitOutstanding"
    /\ Len(searchStack) = 0
    /\ waitingForSplit' = {}
    /\ pc' = "idle"
    /\ UNCHANGED <<m_nodes, m_bucketRecycle, points, scalarGrid, searchStack,
                   searcher, searches, lastQuery>>

\* ---------------------------------------------------------- priority_queue
\* std::priority_queue<DistancePayload> over a vector, as std::push_heap and
\* std::pop_heap (libstdc++) keep it: heap[1] is top(), the largest distance.
\* Positions are 0-based as in the library; position i is heap[i + 1].
RECURSIVE PushHeapFrom(_, _, _)
PushHeapFrom(heap, holeIndex, value) ==
    LET parent == (holeIndex - 1) \div 2
    IN  IF holeIndex > 0 /\ heap[parent + 1].distance < value.distance
        THEN PushHeapFrom([heap EXCEPT ![holeIndex + 1] = heap[parent + 1]], parent, value)
        ELSE [heap EXCEPT ![holeIndex + 1] = value]

\* results.emplace(value)
HeapPush(heap, value) == PushHeapFrom(Append(heap, value), Len(heap), value)

RECURSIVE AdjustHeapDown(_, _, _)
AdjustHeapDown(heap, holeIndex, len) ==
    IF holeIndex < (len - 1) \div 2
    THEN LET right == 2 * (holeIndex + 1)
             child == IF heap[right + 1].distance < heap[right].distance
                      THEN right - 1 ELSE right
         IN  AdjustHeapDown([heap EXCEPT ![holeIndex + 1] = heap[child + 1]], child, len)
    ELSE IF len % 2 = 0 /\ holeIndex = (len - 2) \div 2
    THEN LET child == 2 * (holeIndex + 1) - 1
         IN  <<[heap EXCEPT ![holeIndex + 1] = heap[child + 1]], child>>
    ELSE <<heap, holeIndex>>

\* results.pop()
HeapPop(heap) ==
    IF Len(heap) <= 1 THEN <<>>
    ELSE LET len == Len(heap) - 1
             value == heap[Len(heap)]
             down == AdjustHeapDown(SubSeq(heap, 1, len), 0, len)
         IN  PushHeapFrom(down[1], down[2], value)

\* The loop that pops results.top() into returnResults.
RECURSIVE DrainHeap(_)
DrainHeap(heap) ==
    IF heap = <<>> THEN <<>>
    ELSE <<heap[1]>> \o DrainHeap(HeapPop(heap))

Reverse(seq) == [i \in 1 .. Len(seq) |-> seq[Len(seq) + 1 - i]]

\* ------------------------------------------------------------------ search
pointRectDist(node, location) ==
    LET closestBoundsPoint ==
          [i \in 1 .. Dimensions |->
             IF node.m_bounds[i][1] > location[i] THEN node.m_bounds[i][1]
             ELSE IF node.m_bounds[i][2] < location[i] THEN node.m_bounds[i][2]
             ELSE location[i]]
    IN  MetricDistance(closestBoundsPoint, location)

\* The nearer child is pushed last, so it is popped first.
addChildren(node, location, stack) ==
    IF BelowSplit(node, location)
    THEN Append(Append(stack, node.m_children[2]), node.m_children[1])
    ELSE Append(Append(stack, node.m_children[1]), node.m_children[2])

DistancePayload(location, lp) ==
    [distance |-> MetricDistance(location, lp.location), payload |-> lp.payload]

\* Node::searchBucket: the elements 0 .. m_entries - 1 of the bucket; the first
\* max_i = K - results.size() of them are pushed, each later one replaces the
\* top when it is strictly nearer.
RECURSIVE SearchBucketFrom(_, _, _, _, _)
SearchBucketFrom(node, location, i, max_i, results) ==
    IF i >= node.m_entries THEN results
    ELSE LET dp == DistancePayload(location, node.m_locationPayloads[i + 1])
         IN  IF i < max_i
             THEN SearchBucketFrom(node, location, i + 1, max_i, HeapPush(results, dp))
             ELSE IF dp.distance < results[1].distance
             THEN SearchBucketFrom(node, location, i + 1, max_i,
                                   HeapPush(HeapPop(results), dp))
             ELSE SearchBucketFrom(node, location, i + 1, max_i, results)

\* max_i = K, whatever the heap already holds.
searchBucketFull(node, location, K, results) ==
    SearchBucketFrom(node, location, 0, K, results)

searchBucket(node, location, K, results) ==
    SearchBucketFrom(node, location, 0, K - Len(results), results)

\* The traversal loop of searchK.
RECURSIVE SearchKLoop(_, _, _, _, _)
SearchKLoop(nodes, location, numNeighbours, stack, results) ==
    IF Len(stack) = 0 THEN results
    ELSE LET node == nodes[stack[Len(stack)] + 1]
             rest == SubSeq(stack, 1, Len(stack) - 1)
         IN  IF Len(results) < numNeighbours
                \/ results[1].distance > pointRectDist(node, location)
             THEN IF IsLeaf(node)
                  THEN SearchKLoop(nodes, location, numNeighbours, rest,
                                   searchBucket(node, location, numNeighbours, results))
                  ELSE SearchKLoop(nodes, location, numNeighbours,
                                   addChildren(node, location, rest), results)
             ELSE SearchKLoop(nodes, location, numNeighbours, rest, results)

\* KDTree::searchK(location, numNeighbours)
searchK(nodes, location, numNeighbours) ==
    LET k == IF nodes[1].m_entries < numNeighbours
             THEN nodes[1].m_entries ELSE numNeighbours
    IN  IF k > 0
        THEN Reverse(DrainHeap(SearchKLoop(nodes, location, k, <<0>>, <<>>)))
        ELSE <<>>

\* The bucket loop of search: every element of the bucket, the running best
\* replaced by a strictly nearer one.
RECURSIVE SearchNearestBucket(_, _, _, _)
SearchNearestBucket(bucket, location, i, result) ==
    IF i > Len(bucket) THEN result
    ELSE LET dp == DistancePayload(location, bucket[i])
         IN  SearchNearestBucket(bucket, location, i + 1,
                                 IF dp.distance < result.distance THEN dp ELSE result)

RECURSIVE SearchNearestLoop(_, _, _, _)
SearchNearestLoop(nodes, location, stack, result) ==
    IF Len(stack) = 0 THEN result
    ELSE LET node == nodes[stack[Len(stack)] + 1]
             rest == SubSeq(stack, 1, Len(stack) - 1)
         IN  IF result.distance > pointRectDist(node, location)
             THEN IF IsLeaf(node)
                  THEN SearchNearestLoop(nodes, location, rest,
                         SearchNearestBucket(node.m_locationPayloads, location, 1, result))
                  ELSE SearchNearestLoop(nodes, location,
                                         addChildren(node, location, rest), result)
             ELSE SearchNearestLoop(nodes, location, rest, result)

\* The values the payload of a DistancePayload that was never assigned can
\* hold (Payload = int): any int, here -1 for an int that is no payload of
\* the index and the insertion indices for one that is.
UninitializedPayloads == -1 .. MaxInserts - 1

\* The largest finite distance in place of infinity.
NoMatchFinite(uninitialized) == [distance |-> ScalarMax, payload |-> uninitialized]

\* The result search starts from, DistancePayload result with only the
\* distance assigned: an infinite distance and the payload uninitialized.
NoMatch(uninitialized) == [distance |-> Inf, payload |-> uninitialized]

\* KDTree::search(location), for the value uninitialized that the unassigned
\* payload of its result happens to hold.
search(nodes, location, uninitialized) ==
    IF nodes[1].m_entries > 0
    THEN SearchNearestLoop(nodes, location, <<0>>, NoMatch(uninitialized))
    ELSE NoMatch(uninitialized)

\* ------------------------------------------------------------ brute force
\* The references of accuracyTest: the pairs (distance, index) of all the
\* points, in the order of std::pair's operator<.
PairLess(a, b) ==
    a.distance < b.distance \/ (a.distance = b.distance /\ a.payload < b.payload)

RECURSIVE InsertPair(_, _)
InsertPair(sorted, pair) ==
    IF sorted = <<>> THEN <<pair>>
    ELSE IF PairLess(pair, sorted[Len(sorted)])
    THEN Append(InsertPair(SubSeq(sorted, 1, Len(sorted) - 1), pair),
                sorted[Len(sorted)])
    ELSE Append(sorted, pair)

RECURSIVE SortPairs(_)
SortPairs(seq) ==
    IF seq = <<>> THEN <<>>
    ELSE InsertPair(SortPairs(SubSeq(seq, 1, Len(seq) - 1)), seq[Len(seq)])

\* dists: the distance of every point, paired with its index.
Dists(pts, searchLoc) ==
    [i \in 1 .. Len(pts) |->
       [distance |-> MetricDistance(searchLoc, pts[i]), payload |-> i - 1]]

bruteforceKNN(pts, searchLoc, K) ==
    LET actualK == IF Len(pts) < K THEN Len(pts) ELSE K
    IN  SubSeq(SortPairs(Dists(pts, searchLoc)), 1, actualK)

\* ------------------------------------------------- ball and hybrid searches
\* The queries below are not in src/KDTree.h; they follow sections 4.3 and 4.4
\* of the specification, over the same arena, node bounds and heap.

\* The radii queried: the small ones and the infinite one.
MaxRadius == 5
Radii == (0 .. MaxRadius) \cup {Inf}

\* A stable sort ascending by distance.
RECURSIVE InsertByDistance(_, _)
InsertByDistance(sorted, dp) ==
    IF sorted = <<>> THEN <<dp>>
    ELSE IF sorted[Len(sorted)].distance <= dp.distance THEN Append(sorted, dp)
    ELSE Append(InsertByDistance(SubSeq(sorted, 1, Len(sorted) - 1), dp),
                sorted[Len(sorted)])

RECURSIVE SortByDistance(_)
SortByDistance(seq) ==
    IF seq = <<>> THEN <<>>
    ELSE InsertByDistance(SortByDistance(SubSeq(seq, 1, Len(seq) - 1)), seq[Len(seq)])

\* Ball search, leaf scan: an entry is kept iff its distance is <= the radius.
RECURSIVE BallBucketFrom(_, _, _, _, _)
BallBucketFrom(node, location, radius, i, found) ==
    IF i >= node.m_entries THEN found
    ELSE LET dp == DistancePayload(location, node.m_locationPayloads[i + 1])
         IN  BallBucketFrom(node, location, radius, i + 1,
                            IF dp.distance <= radius THEN Append(found, dp) ELSE found)

\* Ball search, traversal: a node is live iff its lower bound is within the
\* radius.
RECURSIVE BallLoop(_, _, _, _, _)
BallLoop(nodes, location, radius, stack, found) ==
    IF Len(stack) = 0 THEN found
    ELSE LET node == nodes[stack[Len(stack)] + 1]
             rest == SubSeq(stack, 1, Len(stack) - 1)
         IN  IF pointRectDist(node, location) <= radius
             THEN IF IsLeaf(node)
                  THEN BallLoop(nodes, location, radius, rest,
                                BallBucketFrom(node, location, radius, 0, found))
                  ELSE BallLoop(nodes, location, radius,
                                addChildren(node, location, rest), found)
             ELSE BallLoop(nodes, location, radius, rest, found)

\* searchBall(point, radius)
searchBall(nodes, location, radius) ==
    SortByDistance(BallLoop(nodes, location, radius, <<0>>, <<>>))

\* Hybrid search, leaf scan: an entry beyond the radius is rejected, the others
\* are offered to the heap of at most K entries.
RECURSIVE CapBucketFrom(_, _, _, _, _, _)
CapBucketFrom(node, location, maxRadius, K, i, results) ==
    IF i >= node.m_entries THEN results
    ELSE LET dp == DistancePayload(location, node.m_locationPayloads[i + 1])
         IN  IF dp.distance > maxRadius
             THEN CapBucketFrom(node, location, maxRadius, K, i + 1, results)
             ELSE IF Len(results) < K
             THEN CapBucketFrom(node, location, maxRadius, K, i + 1,
                                HeapPush(results, dp))
             ELSE IF dp.distance < results[1].distance
             THEN CapBucketFrom(node, location, maxRadius, K, i + 1,
                                HeapPush(HeapPop(results), dp))
             ELSE CapBucketFrom(node, location, maxRadius, K, i + 1, results)

\* Hybrid search, traversal: the test of searchK and the radius cutoff.
RECURSIVE CapLoop(_, _, _, _, _, _)
CapLoop(nodes, location, maxRadius, K, stack, results) ==
    IF Len(stack) = 0 THEN results
    ELSE LET node == nodes[stack[Len(stack)] + 1]
             rest == SubSeq(stack, 1, Len(stack) - 1)
             bound == pointRectDist(node, location)
         IN  IF bound <= maxRadius
                /\ (Len(results) < K \/ results[1].distance > bound)
             THEN IF IsLeaf(node)
                  THEN CapLoop(nodes, location, maxRadius, K, rest,
                               CapBucketFrom(node, location, maxRadius, K, 0, results))
                  ELSE CapLoop(nodes, location, maxRadius, K,
                               addChildren(node, location, rest), results)
             ELSE CapLoop(nodes, location, maxRadius, K, rest, results)

\* The buffers of one hybrid search: the traversal stack, the bounded max-heap
\* and the result list.  NewBuffers are those a one-shot call allocates.
NewBuffers == [stack |-> <<>>, heap |-> <<>>, results |-> <<>>]

\* The hybrid search run on given buffers: K is clamped to the root's entry
\* count, the root is pushed on the stack, the traversal runs until the stack
\* is empty, the heap is drained onto the result list and the result list is
\* reversed.
CapSearchFrom(nodes, location, maxRadius, K, buffers) ==
    LET k == IF nodes[1].m_entries < K THEN nodes[1].m_entries ELSE K
    IN  IF k > 0
        THEN [stack |-> <<>>,
              heap |-> <<>>,
              results |-> Reverse(buffers.results
                                  \o DrainHeap(CapLoop(nodes, location, maxRadius, k,
                                                       Append(buffers.stack, 0),
                                                       buffers.heap)))]
        ELSE buffers

\* searchCapacityLimitedBall(point, radius, k), the one-shot query: it runs on
\* buffers of its own.
searchCapacityLimitedBall(nodes, location, maxRadius, K) ==
    CapSearchFrom(nodes, location, maxRadius, K, NewBuffers).results

\* ---------------------------------------------------------------- Searcher
\* A Searcher that reuses its buffers as the last call left them.
KeepBuffer(buffer) == buffer

\* clear(): the buffer is kept, the elements it held are gone.
ClearBuffer(buffer) == <<>>

\* searcher.search(point, maxRadius, k): the Searcher clears the buffers the
\* last call left and runs the hybrid search on them; the buffers stay with
\* the Searcher, the result list is what the call returns.
SearcherResult(nodes, buffers, location, maxRadius, K) ==
    CapSearchFrom(nodes, location, maxRadius, K,
                  [stack |-> ClearBuffer(buffers.stack),
                   heap |-> ClearBuffer(buffers.heap),
                   results |-> ClearBuffer(buffers.results)])

MaxSearches == 2

SearcherSearch(location, maxRadius, K) ==
    /\ pc = "idle"
    /\ searches < MaxSearches
    /\ searcher' = SearcherResult(m_nodes, searcher, location, maxRadius, K)
    /\ searches' = searches + 1
    /\ lastQuery' = [location |-> location, maxRadius |-> maxRadius, K |-> K,
                     kept |-> searcher.results]
    /\ UNCHANGED <<treeVars, points, scalarGrid, pc, searchStack>>

\* ---------------------------------------------------------- specification
\* KDTree(): the arena holds the root, an empty leaf.
Init ==
    /\ m_nodes = <<NewNode(<<>>)>>
    /\ waitingForSplit = {}
    /\ m_bucketRecycle = <<>>
    /\ points = <<>>
    /\ scalarGrid \in BOOLEAN
    /\ pc = "idle"
    /\ searchStack = <<>>
    /\ searcher = NewBuffers
    /\ searches = 0
    /\ lastQuery = [location |-> <<0, 0>>, maxRadius |-> 0, K |-> 0, kept |-> <<>>]

Insert == /\ Len(points) < MaxInserts
          /\ \E location \in Locations, autosplit \in BOOLEAN :
                AddPoint(location, Len(points), autosplit)

Next ==
    \/ Insert
    \/ SplitOutstandingBegin
    \/ SplitOutstandingStep
    \/ SplitOutstandingEnd

Spec == Init /\ [][Next]_vars

\* ------------------------------------------- the index with huge points
\* Seven points with zero or huge coordinates in both dimensions: (0, 1e308),
\* (0, 1.6e308), (-1.6e308, 1e308), (-1.6e308, 1.6e308), (1e308, 0),
\* (1.7e308, 0) and (-1.6e308, 0), inserted in this order with any autosplit
\* flags, splitOutstanding called at any time.
HugePoints == << <<0, 10000>>, <<0, 16000>>, <<-16000, 10000>>, <<-16000, 16000>>,
                 <<10000, 0>>, <<17000, 0>>, <<-16000, 0>> >>

HugeInit == Init /\ scalarGrid = FALSE

HugeInsert == /\ Len(points) < Len(HugePoints)
              /\ \E autosplit \in BOOLEAN :
                    AddPoint(HugePoints[Len(points) + 1], Len(points), autosplit)

HugeNext ==
    \/ HugeInsert
    \/ SplitOutstandingBegin
    \/ SplitOutstandingStep
    \/ SplitOutstandingEnd

SpecHuge == HugeInit /\ [][HugeNext]_vars

\* splitOutstanding is a loop of a single thread: once called it keeps running.
FairSpecHuge ==
    SpecHuge /\ WF_vars(SplitOutstandingStep) /\ WF_vars(SplitOutstandingEnd)

\* ------------------------------------------------- the index with a Searcher
\* One Searcher, queried between the inserts and the splitOutstanding calls.
SearcherInsert == Len(points) + 1 < MaxInserts /\ Insert

\* The queries run through the Searcher: near and far query points, a finite
\* and the infinite radius, fewer and more neighbours than there are points.
SearcherLocations == { <<0, 0>>, <<MaxCoord, 1>> }
SearcherRadii == {1, Inf}
SearcherK == {2, MaxK}

Search == \E location \in SearcherLocations, maxRadius \in SearcherRadii,
             K \in SearcherK :
              SearcherSearch(location, maxRadius, K)

SearcherNext ==
    \/ SearcherInsert
    \/ SplitOutstandingBegin
    \/ SplitOutstandingStep
    \/ SplitOutstandingEnd
    \/ Search

SpecSearcher == Init /\ [][SearcherNext]_vars

\* ------------------------------------------------------------ the example
\* example(): George, Harold and Melvin, the monster at (8, 8) with a neck of
\* length 6.  The coordinates are the literal doubles.
People == { [location |-> <<1, 2>>, payload |-> "George"],
            [location |-> <<1, 3>>, payload |-> "Harold"],
            [location |-> <<7, 7>>, payload |-> "Melvin"] }

stationaryMonsterLocation == <<8, 8>>

neckLength == 6

Inserted(person) == \E i \in 1 .. Len(points) : points[i] = person.location

ExampleInit == Init /\ scalarGrid = FALSE

ExampleInsert == \E person \in People, autosplit \in BOOLEAN :
                     /\ ~Inserted(person)
                     /\ AddPoint(person.location, person.payload, autosplit)

ExampleNext ==
    \/ ExampleInsert
    \/ SplitOutstandingBegin
    \/ SplitOutstandingStep
    \/ SplitOutstandingEnd

SpecExample == ExampleInit /\ [][ExampleNext]_vars

\* ------------------------------------------------------------------ claims
Distances(results) == [i \in 1 .. Len(results) |-> results[i].distance]

Payloads(results) == [i \in 1 .. Len(results) |-> results[i].payload]

\* C1: in every state between two operations, for every query point q and
\* every k >= 0, the distances searchK returns are the min(k, N) smallest
\* distances from q to the N inserted points, ascending, as the brute-force
\* scan computes them; the result has min(k, N) elements.
C1_KnnDistances ==
    pc = "idle" =>
      \A q \in Locations, k \in 0 .. MaxK :
         LET tnn == searchK(m_nodes, q, k)
             bnn == bruteforceKNN(points, q, k)
         IN  /\ Len(tnn) = (IF k < Len(points) THEN k ELSE Len(points))
             /\ Distances(tnn) = Distances(bnn)

\* C2: the payload at each position of the searchK result is the payload at
\* that position of the brute-force reference sorted by (distance, insertion
\* index), ties included.
C2_KnnPayloads ==
    pc = "idle" =>
      \A q \in Locations, k \in 0 .. MaxK :
         Payloads(searchK(m_nodes, q, k)) = Payloads(bruteforceKNN(points, q, k))

\* C3: after N insert calls, whatever the autosplit flags and the
\* splitOutstanding calls in between, the root's m_entries is N.
C3_SizeIsInsertCount == m_nodes[1].m_entries = Len(points)

\* C3 happens: every insert made, the root split, a split rolled back with
\* its bucket left in the recycle buffer.
C3_Witness ==
    /\ Len(points) = MaxInserts
    /\ ~IsLeaf(m_nodes[1])
    /\ m_bucketRecycle # <<>>
    /\ m_nodes[1].m_entries = MaxInserts

\* C4: on a non-empty index, search(q) returns the distance and the payload of
\* the first element of searchK(q, 1), whatever value the payload that search
\* declares without assigning holds (it stays unassigned when no distance is
\* below infinity).
C4_SearchIsFirstOfK ==
    (pc = "idle" /\ Len(points) > 0) =>
      \A q \in Locations, u \in UninitializedPayloads :
         LET nn == search(m_nodes, q, u)
             tnn == searchK(m_nodes, q, 1)
         IN  /\ Len(tnn) = 1
             /\ nn.distance = tnn[1].distance
             /\ nn.payload = tnn[1].payload

\* C5: on the empty index searchK returns the empty list for every k and
\* every query point, and search returns the result of infinite distance,
\* whatever its unassigned payload holds.
C5_EmptyIndex ==
    Len(points) = 0 =>
      \A q \in Locations :
         /\ \A k \in 0 .. MaxK : searchK(m_nodes, q, k) = <<>>
         /\ \A u \in UninitializedPayloads : search(m_nodes, q, u).distance = Inf

\* C5 happens: the empty index, queried while splitOutstanding runs on it.
C5_Witness ==
    /\ Len(points) = 0
    /\ pc = "splitOutstanding"
    /\ searchK(m_nodes, <<0, 0>>, MaxK) = <<>>
    /\ \A u \in UninitializedPayloads :
          search(m_nodes, <<0, 0>>, u) = [distance |-> Inf, payload |-> u]

\* C6: splitOutstanding terminates: once it has started, its worklist becomes
\* empty after finitely many split attempts.
C6_SplitOutstandingTerminates ==
    (pc = "splitOutstanding") ~> (pc = "splitOutstanding" /\ searchStack = <<>>)

\* The inserted entries within radius of q, as a brute-force filter finds
\* them, sorted by (distance, insertion index).
WithinRadius(pts, q, radius) ==
    SelectSeq(SortPairs(Dists(pts, q)), LAMBDA pair : pair.distance <= radius)

Ascending(results) ==
    \A i \in 1 .. Len(results) - 1 : results[i].distance <= results[i + 1].distance

\* C7: for every query point q and radius r, searchBall(q, r) returns exactly
\* the inserted entries whose distance to q is <= r, the count and the members
\* of the brute-force filter, in ascending order of distance.
C7_BallIsBruteForce ==
    pc = "idle" =>
      \A q \in Locations, r \in Radii :
         LET tnn == searchBall(m_nodes, q, r)
         IN  /\ Ascending(tnn)
             /\ SortPairs(tnn) = WithinRadius(points, q, r)

AllInserted == \A person \in People : Inserted(person)

\* C9 as stated: with George, Harold and Melvin inserted, searchBall((8, 8),
\* 36) returns all three entries.
C9_BallReturnsAllThree ==
    (pc = "idle" /\ AllInserted) =>
      Len(searchBall(m_nodes, stationaryMonsterLocation, neckLength * neckLength)) = 3

\* C9 amended: with George, Harold and Melvin inserted, searchBall((8, 8), 36)
\* returns exactly one entry, Melvin at squared distance 2; George is at 85
\* and Harold at 74, beyond the radius.
C9_BallReturnsMelvin ==
    (pc = "idle" /\ AllInserted) =>
      /\ searchBall(m_nodes, stationaryMonsterLocation, neckLength * neckLength)
            = << [distance |-> 2, payload |-> "Melvin"] >>
      /\ MetricDistance(stationaryMonsterLocation, <<1, 2>>) = 85
      /\ MetricDistance(stationaryMonsterLocation, <<1, 3>>) = 74

\* C9 happens: the three are inserted, the index is split and the ball search
\* finds an entry.
C9_Witness ==
    /\ pc = "idle"
    /\ AllInserted
    /\ ~IsLeaf(m_nodes[1])
    /\ searchBall(m_nodes, stationaryMonsterLocation, neckLength * neckLength) # <<>>

\* The shape of the tree: the leaf or internal status of every node.
Structure(nodes) == [i \in 1 .. Len(nodes) |-> IsLeaf(nodes[i])]

\* C10: an insert with autosplit = false leaves the number of nodes and the
\* leaf or internal status of every node as they were, and when the entry
\* count of the receiving leaf becomes a multiple of the bucket size, at least
\* the bucket size, the handle of the leaf is in waitingForSplit afterwards;
\* an insert with autosplit = true adds nothing to waitingForSplit, and the
\* split it attempts either leaves the structure as it was or makes the
\* receiving leaf internal with two new leaves.
C10_InsertAndPendingSet ==
    [][\A location \in Locations :
         LET leaf == AddNode(m_nodes, location)
             count == m_nodes'[leaf + 1].m_entries
             due == count >= BucketSize /\ count % BucketSize = 0
         IN  /\ AddPoint(location, Len(points), FALSE) =>
                  /\ Structure(m_nodes') = Structure(m_nodes)
                  /\ due => leaf \in waitingForSplit'
                  /\ ~due => waitingForSplit' = waitingForSplit
             /\ AddPoint(location, Len(points), TRUE) =>
                  /\ waitingForSplit' = waitingForSplit
                  /\ \/ Structure(m_nodes') = Structure(m_nodes)
                     \/ /\ due
                        /\ Structure(m_nodes') =
                             [Structure(m_nodes) EXCEPT ![leaf + 1] = FALSE]
                               \o <<TRUE, TRUE>>
                  /\ ~due => Structure(m_nodes') = Structure(m_nodes)]_vars

\* C10 happens: a leaf has reached the bucket size with autosplit off and
\* waits in waitingForSplit, in an index an autosplit insert has split.
C10_Witness ==
    /\ pc = "idle"
    /\ ~IsLeaf(m_nodes[1])
    /\ \E leaf \in waitingForSplit :
          /\ IsLeaf(m_nodes[leaf + 1])
          /\ m_nodes[leaf + 1].m_entries = BucketSize

\* ------------------------------------------------------------------- C11
\* C11: a split that fails (no dimension of positive width, or an empty child
\* and the rollback) leaves the arena as it was before the attempt: the same
\* number of nodes, the node still a leaf with the same bucket, bounds and
\* m_entries; nothing is surfaced to the caller: splitOutstanding goes on with
\* the rest of its worklist and addPoint returns normally with the entry added.
C11_FailedSplitLeavesIndex ==
    [][ /\ ( /\ pc = "splitOutstanding"
             /\ Len(searchStack) > 0
             /\ searchStack' # searchStack
             /\ IsLeaf(m_nodes[searchStack[Len(searchStack)] + 1])
             /\ shouldSplit(m_nodes[searchStack[Len(searchStack)] + 1])
             /\ Len(m_nodes') = Len(m_nodes) )
           => /\ m_nodes' = m_nodes
              /\ waitingForSplit' = waitingForSplit
              /\ searchStack' = SubSeq(searchStack, 1, Len(searchStack) - 1)
              /\ pc' = pc
        /\ ( /\ Len(points') = Len(points) + 1
             /\ Len(m_nodes') = Len(m_nodes) )
           => /\ m_nodes' = AfterAdd(m_nodes, points'[Len(points')], Len(points))
              /\ pc' = pc
      ]_vars

\* Both failures have happened: a leaf of two equal points that a split was
\* attempted on (no width), and a rolled-back leaf whose entries the rollback
\* left in the recycle buffer.
C11_Witness ==
    /\ pc = "idle"
    /\ waitingForSplit = {}
    /\ m_bucketRecycle # <<>>
    /\ \E i \in 1 .. Len(m_nodes) :
          /\ IsLeaf(m_nodes[i])
          /\ shouldSplit(m_nodes[i])
          /\ m_nodes[i].m_locationPayloads = m_bucketRecycle
    /\ \E i \in 1 .. Len(m_nodes) :
          /\ IsLeaf(m_nodes[i])
          /\ m_nodes[i].m_entries = BucketSize
          /\ \A d \in 1 .. Dimensions :
                m_nodes[i].m_bounds[d][1] = m_nodes[i].m_bounds[d][2]


\* ------------------------------------------------------------------- C12
\* The two children of the internal node at position i of the arena.
LeftChild(nodes, i) == nodes[nodes[i].m_children[1] + 1]

RightChild(nodes, i) == nodes[nodes[i].m_children[2] + 1]

\* C12: in every reachable state the m_entries of every internal node is the
\* sum of the m_entries of its two children, and both children have
\* m_entries > 0.
C12_EntryCountIsSumOfChildren ==
    \A i \in 1 .. Len(m_nodes) :
        ~IsLeaf(m_nodes[i]) =>
            /\ m_nodes[i].m_entries =
                 LeftChild(m_nodes, i).m_entries + RightChild(m_nodes, i).m_entries
            /\ LeftChild(m_nodes, i).m_entries > 0
            /\ RightChild(m_nodes, i).m_entries > 0


\* ------------------------------------------------------------------- C13
\* The entries stored in the buckets of the leaves of the subtree of the node
\* at position i of the arena.
RECURSIVE SubtreeEntries(_, _)
SubtreeEntries(nodes, i) ==
    IF IsLeaf(nodes[i])
    THEN { nodes[i].m_locationPayloads[j] :
             j \in 1 .. Len(nodes[i].m_locationPayloads) }
    ELSE SubtreeEntries(nodes, nodes[i].m_children[1] + 1)
           \cup SubtreeEntries(nodes, nodes[i].m_children[2] + 1)

InsideBounds(node, location) ==
    \A d \in 1 .. Dimensions :
        /\ node.m_bounds[d][1] <= location[d]
        /\ location[d] <= node.m_bounds[d][2]

\* C13: in every reachable state, for every node of the arena, every entry
\* stored in a leaf of the node's subtree lies inside the node's bounds in
\* every dimension.
C13_BoundsContainSubtree ==
    \A i \in 1 .. Len(m_nodes) :
        \A lp \in SubtreeEntries(m_nodes, i) : InsideBounds(m_nodes[i], lp.location)


\* ------------------------------------------------------------------- C14
\* How many times entry lp is held in the buckets of the leaves, from
\* position i of the arena on.
RECURSIVE Occurrences(_, _, _)
Occurrences(nodes, i, lp) ==
    IF i > Len(nodes) THEN 0
    ELSE (IF IsLeaf(nodes[i])
          THEN Cardinality({ j \in 1 .. Len(nodes[i].m_locationPayloads) :
                               nodes[i].m_locationPayloads[j] = lp })
          ELSE 0)
         + Occurrences(nodes, i + 1, lp)

\* The number of entries held in the buckets of the leaves, from position i on.
RECURSIVE LeafEntries(_, _)
LeafEntries(nodes, i) ==
    IF i > Len(nodes) THEN 0
    ELSE (IF IsLeaf(nodes[i]) THEN Len(nodes[i].m_locationPayloads) ELSE 0)
         + LeafEntries(nodes, i + 1)

\* The k-th entry inserted: the payload is the insertion index.
InsertedEntry(k) == [location |-> points[k], payload |-> k - 1]

\* C14: in every reachable state the entries held in the buckets of the
\* leaves are, as a multiset, the entries inserted so far: every inserted
\* entry is held exactly once, and nothing else is held.
C14_LeavesHoldInsertedEntries ==
    /\ \A k \in 1 .. Len(points) : Occurrences(m_nodes, 1, InsertedEntry(k)) = 1
    /\ LeafEntries(m_nodes, 1) = Len(points)


\* ------------------------------------------------------------------- C15
\* C15: in every reachable state, for every internal node, every entry stored
\* in the subtree of its left child is below the split value in the split
\* dimension, and every entry stored in the subtree of its right child is not.
C15_SplitSeparatesSubtrees ==
    \A i \in 1 .. Len(m_nodes) :
        ~IsLeaf(m_nodes[i]) =>
            /\ \A lp \in SubtreeEntries(m_nodes, m_nodes[i].m_children[1] + 1) :
                  BelowSplit(m_nodes[i], lp.location)
            /\ \A lp \in SubtreeEntries(m_nodes, m_nodes[i].m_children[2] + 1) :
                  ~BelowSplit(m_nodes[i], lp.location)


\* ------------------------------------------------------------------- C16
\* A split attempt on the node at position i of the arena returns false: no
\* dimension of positive width, or one side of the partition empty.
SplitFails(grid, nodes, recycle, i) ==
    \E r \in { split(grid, nodes, recycle, i - 1) } : ~r.ok /\ ~r.bad_alloc

\* Every leaf holds fewer entries than the bucket size or cannot be split.
FullySplit ==
    \A i \in 1 .. Len(m_nodes) :
        IsLeaf(m_nodes[i]) =>
            \/ m_nodes[i].m_entries < BucketSize
            \/ SplitFails(scalarGrid, m_nodes, m_bucketRecycle, i)

\* The index as inserts with autosplit = false alone leave it: the root is
\* the only node, no split was attempted, and the root is in waitingForSplit
\* from the moment it holds BucketSize entries.
BulkLoaded ==
    /\ Len(m_nodes) = 1
    /\ m_bucketRecycle = <<>>
    /\ waitingForSplit = (IF shouldSplit(m_nodes[1]) THEN {0} ELSE {})


\* The bulk load of the tuning tips and of accuracyTest (tree2): points of
\* HugePoints, each at most once and in any order, all inserted with
\* autosplit = false, then splitOutstanding.  Inserts go on only while the
\* index is as autosplit = false inserts alone leave it.
BulkInsert ==
    /\ BulkLoaded
    /\ \E k \in 1 .. Len(HugePoints) :
          /\ \A j \in 1 .. Len(points) : points[j] # HugePoints[k]
          /\ AddPoint(HugePoints[k], Len(points), FALSE)

BulkNext ==
    \/ BulkInsert
    \/ SplitOutstandingBegin
    \/ SplitOutstandingStep
    \/ SplitOutstandingEnd

SpecBulk == HugeInit /\ [][BulkNext]_vars

\* splitOutstanding is a loop of a single thread: once called it keeps running.
FairSpecBulk ==
    SpecBulk /\ WF_vars(SplitOutstandingStep) /\ WF_vars(SplitOutstandingEnd)

\* C16: after inserts that all use autosplit = false, one splitOutstanding
\* call leaves the index fully split: the call, once started, comes to its
\* end with every leaf below the bucket size or impossible to split.
C16_BulkLoadIsFullySplit ==
    (pc = "splitOutstanding") ~> (pc = "idle" /\ FullySplit)


\* ------------------------------------------------------------------- C17
\* C17 as stated: in every reachable state every handle in waitingForSplit
\* denotes an existing node that is a leaf and whose m_entries has reached
\* BucketSize.
C17_PendingAreDueLeaves ==
    \A h \in waitingForSplit :
        /\ h < Len(m_nodes)
        /\ IsLeaf(m_nodes[h + 1])
        /\ m_nodes[h + 1].m_entries >= BucketSize

\* C17 amended: in every reachable state every handle in waitingForSplit
\* denotes an existing node whose m_entries has reached BucketSize; the node
\* was a leaf when it was recorded and may have become internal since, by the
\* split of a later insert with autosplit = true or in the course of
\* splitOutstanding.
C17_PendingAreDueNodes ==
    \A h \in waitingForSplit :
        /\ h < Len(m_nodes)
        /\ m_nodes[h + 1].m_entries >= BucketSize

\* Between two calls the pending set holds a node that an insert with
\* autosplit = true has split since it was recorded.
C17_Witness ==
    /\ pc = "idle"
    /\ \E h \in waitingForSplit :
          /\ ~IsLeaf(m_nodes[h + 1])
          /\ m_nodes[h + 1].m_entries >= BucketSize


\* ------------------------------------------------------------------- C18
\* C18: in every reachable state the bucket of every leaf holds exactly
\* m_entries entries and the bucket of every internal node is empty: the
\* recycled buffer brings no entries into a new left child.
C18_BucketHoldsEntryCount ==
    \A i \in 1 .. Len(m_nodes) :
        IF IsLeaf(m_nodes[i])
        THEN Len(m_nodes[i].m_locationPayloads) = m_nodes[i].m_entries
        ELSE m_nodes[i].m_locationPayloads = <<>>


\* ------------------------------------------------------------------- C19
\* The internal nodes that have handle h as a child.
ParentsOf(nodes, h) ==
    { i \in 1 .. Len(nodes) :
        /\ ~IsLeaf(nodes[i])
        /\ h \in { nodes[i].m_children[1], nodes[i].m_children[2] } }

\* C19: in every reachable state the arena is a binary tree rooted at handle
\* 0: node 0 exists, every internal node has two distinct child handles that
\* are greater than its own handle and smaller than the arena size, every
\* node other than the root is the child of exactly one internal node, and
\* every handle in waitingForSplit is smaller than the arena size.
C19_ArenaIsBinaryTree ==
    /\ Len(m_nodes) >= 1
    /\ \A i \in 1 .. Len(m_nodes) :
          ~IsLeaf(m_nodes[i]) =>
              /\ m_nodes[i].m_children[1] # m_nodes[i].m_children[2]
              /\ m_nodes[i].m_children[1] > i - 1
              /\ m_nodes[i].m_children[2] > i - 1
              /\ m_nodes[i].m_children[1] < Len(m_nodes)
              /\ m_nodes[i].m_children[2] < Len(m_nodes)
    /\ ParentsOf(m_nodes, 0) = {}
    /\ \A h \in 1 .. Len(m_nodes) - 1 : Cardinality(ParentsOf(m_nodes, h)) = 1
    /\ \A h \in waitingForSplit : h < Len(m_nodes)


====
